---- MODULE Spec2Model ----
(***************************************************************************)
(* Model of src/controllers/usuarioController.js: the five handlers of the *)
(* "usuarios" resource over the relational store reached through db.query. *)
(*                                                                         *)
(* JavaScript values are records [t, s, n]: t is the typeof tag, s the     *)
(* characters of a string (one-character strings), n the numeric payload.  *)
(* The alphabet of modelled characters is " ", letters, "@" and the digits *)
(* "0", "1", "2".                                                          *)
(***************************************************************************)
EXTENDS Integers, Sequences, FiniteSets, TLC

VARIABLES
    usuarios,   \* the usuarios table: idusuario -> row
    nextId,     \* the store's AUTO_INCREMENT counter (result.insertId)
    req,        \* the request handled last: handler, params.id, body
    res,        \* the response sent for it: status and body
    stmts,      \* the statements that request issued through db.query
    nreq,       \* number of requests handled so far
    procs       \* overlapping requests: each one's position and locals

vars == <<usuarios, nextId, req, res, stmts, nreq, procs>>

(***************************************************************************)
(* Bounds                                                                  *)
(***************************************************************************)
MaxReqs == 3

(***************************************************************************)
(* JavaScript values                                                       *)
(***************************************************************************)
Undef == [t |-> "undefined", s |-> <<>>, n |-> 0]
Null == [t |-> "null", s |-> <<>>, n |-> 0]
Str(s) == [t |-> "string", s |-> s, n |-> 0]
Num(n) == [t |-> "number", s |-> <<>>, n |-> n]
NaN == [t |-> "number", s |-> <<"NaN">>, n |-> 0]
Bool(b) == [t |-> "boolean", s |-> <<>>, n |-> IF b THEN 1 ELSE 0]

\* !v
Falsy(v) ==
    \/ v.t \in {"undefined", "null"}
    \/ v.t = "string" /\ v.s = <<>>
    \/ v.t = "number" /\ (v = NaN \/ v.n = 0)
    \/ v.t = "boolean" /\ v.n = 0

\* String.prototype.trim
RECURSIVE TrimLeft(_)
TrimLeft(s) ==
    IF s # <<>> /\ Head(s) = " " THEN TrimLeft(Tail(s)) ELSE s

RECURSIVE TrimRight(_)
TrimRight(s) ==
    IF s # <<>> /\ s[Len(s)] = " " THEN TrimRight(SubSeq(s, 1, Len(s) - 1)) ELSE s

Trim(s) == TrimRight(TrimLeft(s))

\* String.prototype.toLowerCase
LowerChar(c) ==
    CASE c = "A" -> "a"
      [] c = "B" -> "b"
      [] OTHER -> c

ToLowerCase(s) == [i \in 1..Len(s) |-> LowerChar(s[i])]

\* String.prototype.includes, for a one-character needle
Includes(s, c) == \E i \in 1..Len(s) : s[i] = c

\* Number(v)
DigitVal(c) ==
    CASE c = "0" -> 0
      [] c = "1" -> 1
      [] c = "2" -> 2
      [] OTHER -> 0

RECURSIVE DecimalValue(_)
DecimalValue(s) ==
    IF s = <<>> THEN 0
    ELSE 10 * DecimalValue(SubSeq(s, 1, Len(s) - 1)) + DigitVal(s[Len(s)])

StringToNumber(s) ==
    IF s = <<>> THEN Num(0)
    ELSE IF \A i \in 1..Len(s) : s[i] \in {"0", "1", "2"} THEN Num(DecimalValue(s))
    ELSE NaN

ToNumber(v) ==
    CASE v.t = "number" -> v
      [] v.t = "boolean" -> Num(v.n)
      [] v.t = "null" -> Num(0)
      [] v.t = "string" -> StringToNumber(Trim(v.s))
      [] OTHER -> NaN

MinPasswordLength == 6

\* bcrypt.hash(password, 10): a string that is never the plaintext
Hash(pw) == Str(<<"$2b$10$">> \o pw.s)

Cliente == Str(<<"c", "l", "i", "e", "n", "t", "e">>)
Admin == Str(<<"a", "d", "m", "i", "n">>)

(***************************************************************************)
(* Responses                                                               *)
(***************************************************************************)
BodyKeys ==
    {"idusuario", "nombre", "email", "password", "rol", "fechacreacion",
     "activo", "error", "message"}

\* A JSON object: a key whose value is undefined is not in the payload.
EmptyBody == [k \in BodyKeys |-> Undef]

Keys(body) == {k \in BodyKeys : body[k] # Undef}

Json(status, body) ==
    [status |-> status, kind |-> "json", body |-> body, rows |-> <<>>]

JsonRows(status, rows) ==
    [status |-> status, kind |-> "rows", body |-> EmptyBody, rows |-> rows]

Send(status) ==
    [status |-> status, kind |-> "empty", body |-> EmptyBody, rows |-> <<>>]

ErrorBody(msg) == [EmptyBody EXCEPT !.error = msg]

MessageBody(msg) == [EmptyBody EXCEPT !.message = msg]

NoEncontrado == Str(<<"Usuario no encontrado">>)
ErrStore == Str(<<"err.message">>)
ErrCrearNombre == Str(<<"El campo nombre es requerido y debe ser una cadena valida">>)
ErrCrearEmail == Str(<<"El campo email es requerido y debe ser un email valido">>)
ErrCrearPassword == Str(<<"El campo password es requerido y debe tener al menos 6 caracteres">>)
ErrRol == Str(<<"El campo rol debe ser cliente o admin">>)
ErrActivo == Str(<<"El campo activo debe ser 0 o 1">>)
ErrCrearDuplicado(email) == Str(<<"Ya existe un usuario con el email ">> \o email.s)
ErrCrearInterno == Str(<<"Ocurrio un error interno al crear el usuario">>)
ErrSinCampos == Str(<<"Debe proporcionar al menos un campo para actualizar">>)
ErrNombre == Str(<<"El campo nombre debe ser una cadena valida">>)
ErrEmail == Str(<<"El campo email debe ser un correo valido">>)
ErrPassword == Str(<<"El campo password debe tener al menos 6 caracteres">>)
ErrDuplicado(email) == Str(<<"Ya existe otro usuario con el email ">> \o email.s)
ErrSinDatos == Str(<<"No hay datos validos para actualizar">>)
ErrActualizarInterno == Str(<<"Ocurrio un error interno al actualizar el usuario">>)

\* What a handler leaves behind: the table, the counter, the response, the log.
Outcome(tbl, nid, r, log) ==
    [usuarios |-> tbl, nextId |-> nid, res |-> r, stmts |-> log]

(***************************************************************************)
(* The store                                                               *)
(***************************************************************************)
RECURSIVE SortedIds(_)
SortedIds(S) ==
    IF S = {} THEN <<>>
    ELSE LET m == CHOOSE x \in S : \A y \in S : x <= y
         IN <<m>> \o SortedIds(S \ {m})

\* Mutant: SELECT *, as the existence check of updateUsuario reads.
ProjectionStar(row) ==
    [EmptyBody EXCEPT !.idusuario = row.idusuario, !.nombre = row.nombre,
                      !.email = row.email, !.password = row.password,
                      !.rol = row.rol, !.fechacreacion = row.fechacreacion,
                      !.activo = row.activo]

\* SELECT idusuario, nombre, email, rol, fechacreacion, activo
Projection(row) ==
    [EmptyBody EXCEPT !.idusuario = row.idusuario, !.nombre = row.nombre,
                      !.email = row.email, !.rol = row.rol,
                      !.fechacreacion = row.fechacreacion, !.activo = row.activo]

\* ... FROM usuarios
SelectAll(tbl) ==
    LET ids == SortedIds(DOMAIN tbl)
    IN [i \in 1..Len(ids) |-> Projection(tbl[ids[i]])]

\* ... FROM usuarios WHERE idusuario = ?
SelectById(tbl, id) ==
    IF id \in DOMAIN tbl THEN <<Projection(tbl[id])>> ELSE <<>>

\* SELECT idusuario FROM usuarios WHERE LOWER(email) = ?
SelectByEmail(tbl, lowered) ==
    {i \in DOMAIN tbl : ToLowerCase(tbl[i].email.s) = lowered}

\* SELECT idusuario FROM usuarios WHERE LOWER(email) = ? AND idusuario != ?
SelectByEmailOther(tbl, lowered, id) ==
    {i \in DOMAIN tbl : ToLowerCase(tbl[i].email.s) = lowered /\ i # id}

\* Mutant: the INSERT meets a unique index on LOWER(email) and adds nothing.
InsertUsuarioUnique(tbl, nid, nombre, email, password, rol, activo) ==
    IF \E i \in DOMAIN tbl : ToLowerCase(tbl[i].email.s) = ToLowerCase(email.s)
    THEN tbl
    ELSE [i \in DOMAIN tbl \cup {nid} |->
             IF i = nid
             THEN [idusuario |-> Num(nid), nombre |-> nombre, email |-> email,
                   password |-> password, rol |-> rol,
                   fechacreacion |-> [t |-> "date", s |-> <<>>, n |-> nid],
                   activo |-> activo]
             ELSE tbl[i]]

\* INSERT INTO usuarios (nombre, email, password, rol, activo) VALUES (...)
InsertUsuario(tbl, nid, nombre, email, password, rol, activo) ==
    [i \in DOMAIN tbl \cup {nid} |->
        IF i = nid
        THEN [idusuario |-> Num(nid), nombre |-> nombre, email |-> email,
              password |-> password, rol |-> rol,
              fechacreacion |-> [t |-> "date", s |-> <<>>, n |-> nid],
              activo |-> activo]
        ELSE tbl[i]]

SetCols == {"nombre", "email", "password", "rol", "activo"}

\* UPDATE usuarios SET <the columns of sets that are not undefined> WHERE idusuario = ?
ExecUpdate(tbl, id, sets) ==
    [i \in DOMAIN tbl |->
        IF i = id
        THEN [c \in DOMAIN tbl[i] |->
                 IF c \in SetCols /\ sets[c] # Undef THEN sets[c] ELSE tbl[i][c]]
        ELSE tbl[i]]

\* Mutant: the WHERE clause compares with <= instead of =.
ExecDeleteUpTo(tbl, id) == [i \in {j \in DOMAIN tbl : j > id} |-> tbl[i]]

\* DELETE FROM usuarios WHERE idusuario = ?
ExecDelete(tbl, id) == [i \in DOMAIN tbl \ {id} |-> tbl[i]]

AffectedRows(tbl, id) == IF id \in DOMAIN tbl THEN 1 ELSE 0

(***************************************************************************)
(* Request bodies                                                          *)
(***************************************************************************)
\* req.body after destructuring: a missing key reads as undefined.
Body(nombre, email, password, rol, activo) ==
    [nombre |-> nombre, email |-> email, password |-> password, rol |-> rol,
     activo |-> activo]

NoBody == Body(Undef, Undef, Undef, Undef, Undef)

Supplied(body) == {c \in SetCols : body[c] # Undef}

(***************************************************************************)
(* getAllUsuarios, getUsuarioById                                          *)
(***************************************************************************)
getAllUsuarios(tbl, nid, failAt) ==
    IF failAt = 1
    THEN Outcome(tbl, nid, Json(500, ErrorBody(ErrStore)), <<"SELECT">>)
    ELSE Outcome(tbl, nid, JsonRows(200, SelectAll(tbl)), <<"SELECT">>)

getUsuarioById(id, tbl, nid, failAt) ==
    LET rows == SelectById(tbl, id)
    IN IF failAt = 1
       THEN Outcome(tbl, nid, Json(500, ErrorBody(ErrStore)), <<"SELECT">>)
       ELSE IF Len(rows) = 0
       THEN Outcome(tbl, nid, Json(404, MessageBody(NoEncontrado)), <<"SELECT">>)
       ELSE Outcome(tbl, nid, Json(200, rows[1]), <<"SELECT">>)

(***************************************************************************)
(* createUsuario                                                           *)
(***************************************************************************)
\* rol = 'cliente', activo = 1 in the destructuring
RolOrDefault(body) == IF body.rol = Undef THEN Cliente ELSE body.rol

ActivoOrDefault(body) == IF body.activo = Undef THEN Num(1) ELSE body.activo

CreateNombreBad(v) == Falsy(v) \/ v.t # "string" \/ Trim(v.s) = <<>>

CreateEmailBad(v) == Falsy(v) \/ v.t # "string" \/ ~Includes(v.s, "@")

CreatePasswordBad(v) == Falsy(v) \/ v.t # "string" \/ Len(v.s) < MinPasswordLength

RolBad(v) == v \notin {Cliente, Admin}

ActivoBad(v) == ToNumber(v) \notin {Num(0), Num(1)}

\* The message of the first failing validation, undefined when all pass.
CreateValidationError(body) ==
    IF CreateNombreBad(body.nombre) THEN ErrCrearNombre
    ELSE IF CreateEmailBad(body.email) THEN ErrCrearEmail
    ELSE IF CreatePasswordBad(body.password) THEN ErrCrearPassword
    ELSE IF RolBad(RolOrDefault(body)) THEN ErrRol
    ELSE IF ActivoBad(ActivoOrDefault(body)) THEN ErrActivo
    ELSE Undef

\* The lower-cased parameter of the existence check.
CreateEmailKey(body) == ToLowerCase(body.email.s)

\* The table after the INSERT of a validated body.
CreateInsert(tbl, nid, body) ==
    InsertUsuario(tbl, nid, Str(Trim(body.nombre.s)), Str(Trim(body.email.s)),
                  Hash(body.password), RolOrDefault(body), ActivoOrDefault(body))

\* Mutant: the payload echoes nombre as received, not as stored.
CreateResponseUntrimmed(insertId, body) ==
    [EmptyBody EXCEPT !.idusuario = Num(insertId),
                      !.nombre = body.nombre,
                      !.email = Str(Trim(body.email.s)),
                      !.rol = RolOrDefault(body),
                      !.activo = ActivoOrDefault(body)]

\* The 201 payload.
CreateResponse(insertId, body) ==
    [EmptyBody EXCEPT !.idusuario = Num(insertId),
                      !.nombre = Str(Trim(body.nombre.s)),
                      !.email = Str(Trim(body.email.s)),
                      !.rol = RolOrDefault(body),
                      !.activo = ActivoOrDefault(body)]

createUsuario(body, tbl, nid, failAt) ==
    LET err == CreateValidationError(body)
    IN IF err # Undef
       THEN Outcome(tbl, nid, Json(400, ErrorBody(err)), <<>>)
       ELSE IF failAt = 1
       THEN Outcome(tbl, nid, Json(500, ErrorBody(ErrCrearInterno)), <<"SELECT">>)
       ELSE IF SelectByEmail(tbl, CreateEmailKey(body)) # {}
       THEN Outcome(tbl, nid, Json(400, ErrorBody(ErrCrearDuplicado(body.email))),
                    <<"SELECT">>)
       ELSE IF failAt = 2
       THEN Outcome(tbl, nid, Json(500, ErrorBody(ErrCrearInterno)),
                    <<"SELECT", "INSERT">>)
       ELSE Outcome(CreateInsert(tbl, nid, body), nid + 1,
                    Json(201, CreateResponse(nid, body)), <<"SELECT", "INSERT">>)

(***************************************************************************)
(* updateUsuario                                                           *)
(***************************************************************************)
NombreBad(v) == v.t # "string" \/ Trim(v.s) = <<>>

EmailBad(v) == v.t # "string" \/ ~Includes(v.s, "@")

PasswordBad(v) == v.t # "string" \/ Len(v.s) < MinPasswordLength

\* The guard before the try block.
NoFields(body) ==
    /\ body.nombre = Undef
    /\ body.email = Undef
    /\ body.password = Undef
    /\ body.rol = Undef
    /\ body.activo = Undef

\* SELECT * FROM usuarios WHERE idusuario = ?
SelectStarById(tbl, id) == IF id \in DOMAIN tbl THEN <<tbl[id]>> ELSE <<>>

\* The validations that run before the email lookup is issued.
UpdateErrorBeforeLookup(body) ==
    IF body.nombre # Undef /\ NombreBad(body.nombre) THEN ErrNombre
    ELSE IF body.email # Undef /\ EmailBad(body.email) THEN ErrEmail
    ELSE Undef

\* Mutant: rol is validated before password.
UpdateErrorAfterLookupRolFirst(body) ==
    IF body.rol # Undef /\ RolBad(body.rol) THEN ErrRol
    ELSE IF body.password # Undef /\ PasswordBad(body.password) THEN ErrPassword
    ELSE IF body.activo # Undef /\ ActivoBad(body.activo) THEN ErrActivo
    ELSE Undef

\* The validations that run after it.
UpdateErrorAfterLookup(body) ==
    IF body.password # Undef /\ PasswordBad(body.password) THEN ErrPassword
    ELSE IF body.rol # Undef /\ RolBad(body.rol) THEN ErrRol
    ELSE IF body.activo # Undef /\ ActivoBad(body.activo) THEN ErrActivo
    ELSE Undef

UpdateEmailKey(body) == ToLowerCase(body.email.s)

\* Mutant: rol takes createUsuario's default when it is absent.
UpdateSetsRolDefault(body) ==
    [nombre |-> IF body.nombre # Undef THEN Str(Trim(body.nombre.s)) ELSE Undef,
     email |-> IF body.email # Undef THEN Str(Trim(body.email.s)) ELSE Undef,
     password |-> IF body.password # Undef THEN Hash(body.password) ELSE Undef,
     rol |-> RolOrDefault(body),
     activo |-> body.activo]

\* updates / values: the column assignments of the UPDATE, undefined when absent.
UpdateSets(body) ==
    [nombre |-> IF body.nombre # Undef THEN Str(Trim(body.nombre.s)) ELSE Undef,
     email |-> IF body.email # Undef THEN Str(Trim(body.email.s)) ELSE Undef,
     password |-> IF body.password # Undef THEN Hash(body.password) ELSE Undef,
     rol |-> body.rol,
     activo |-> body.activo]

\* updatedFields
UpdatedFields(body) ==
    [EmptyBody EXCEPT
        !.nombre = IF body.nombre # Undef THEN Str(Trim(body.nombre.s)) ELSE Undef,
        !.email = IF body.email # Undef THEN Str(Trim(body.email.s)) ELSE Undef,
        !.rol = body.rol,
        !.activo = body.activo]

\* The handler up to the point where the UPDATE is assembled: the response it
\* returns early with, or status 0 when every check passed, and the statements issued.
updateValidate(id, body, tbl, failAt) ==
    LET lookup == body.email # Undef
        log1 == <<"SELECT">>
        log2 == IF lookup THEN <<"SELECT", "SELECT">> ELSE log1
        e1 == UpdateErrorBeforeLookup(body)
        e2 == UpdateErrorAfterLookup(body)
        fail == Json(500, ErrorBody(ErrActualizarInterno))
    IN IF NoFields(body)
       THEN [res |-> Json(400, ErrorBody(ErrSinCampos)), stmts |-> <<>>]
       ELSE IF failAt = 1
       THEN [res |-> fail, stmts |-> log1]
       ELSE IF Len(SelectStarById(tbl, id)) = 0
       THEN [res |-> Json(404, MessageBody(NoEncontrado)), stmts |-> log1]
       ELSE IF e1 # Undef
       THEN [res |-> Json(400, ErrorBody(e1)), stmts |-> log1]
       ELSE IF lookup /\ failAt = 2
       THEN [res |-> fail, stmts |-> log2]
       ELSE IF lookup /\ SelectByEmailOther(tbl, UpdateEmailKey(body), id) # {}
       THEN [res |-> Json(400, ErrorBody(ErrDuplicado(body.email))), stmts |-> log2]
       ELSE IF e2 # Undef
       THEN [res |-> Json(400, ErrorBody(e2)), stmts |-> log2]
       ELSE IF Supplied(UpdateSets(body)) = {}
       THEN [res |-> Json(400, ErrorBody(ErrSinDatos)), stmts |-> log2]
       ELSE [res |-> Send(0), stmts |-> log2]

\* Mutant: the activo branch responds 400 but does not return.
updateUsuarioNoReturn(id, body, tbl, nid, failAt) ==
    LET v == updateValidate(id, body, tbl, failAt)
        log == Append(v.stmts, "UPDATE")
    IN IF v.res.status # 0 /\ v.res.body.error = ErrActivo
       THEN Outcome(ExecUpdate(tbl, id, [UpdateSets(body) EXCEPT !.activo = Undef]),
                    nid, v.res, log)
       ELSE IF v.res.status # 0
       THEN Outcome(tbl, nid, v.res, v.stmts)
       ELSE IF failAt = Len(log)
       THEN Outcome(tbl, nid, Json(500, ErrorBody(ErrActualizarInterno)), log)
       ELSE Outcome(ExecUpdate(tbl, id, UpdateSets(body)), nid,
                    Json(200, UpdatedFields(body)), log)

updateUsuario(id, body, tbl, nid, failAt) ==
    LET v == updateValidate(id, body, tbl, failAt)
        log == Append(v.stmts, "UPDATE")
    IN IF v.res.status # 0
       THEN Outcome(tbl, nid, v.res, v.stmts)
       ELSE IF failAt = Len(log)
       THEN Outcome(tbl, nid, Json(500, ErrorBody(ErrActualizarInterno)), log)
       ELSE Outcome(ExecUpdate(tbl, id, UpdateSets(body)), nid,
                    Json(200, UpdatedFields(body)), log)

(***************************************************************************)
(* deleteUsuario                                                           *)
(***************************************************************************)
deleteUsuario(id, tbl, nid, failAt) ==
    IF failAt = 1
    THEN Outcome(tbl, nid, Json(500, ErrorBody(ErrStore)), <<"DELETE">>)
    ELSE IF AffectedRows(tbl, id) = 0
    THEN Outcome(ExecDelete(tbl, id), nid, Json(404, MessageBody(NoEncontrado)),
                 <<"DELETE">>)
    ELSE Outcome(ExecDelete(tbl, id), nid, Send(204), <<"DELETE">>)

(***************************************************************************)
(* Inputs                                                                  *)
(***************************************************************************)
NombreA == Str(<<" ", "a">>)
NombreB == Str(<<"b", " ">>)
NombreBlank == Str(<<" ">>)
EmailA == Str(<<"a", "@">>)
EmailUpper == Str(<<"A", "@">>)
EmailPadded == Str(<<" ", "A", "@">>)
EmailNoAt == Str(<<"a">>)
Secret == Str(<<"s", "e", "c", "r", "e", "t">>)
Secret2 == Str(<<"s", "e", "c", "r", "e", "t", "2">>)
ShortSecret == Str(<<"s", "e", "c">>)
Root == Str(<<"r", "o", "o", "t">>)
One == Str(<<"1">>)
Yes == Str(<<"y", "e", "s">>)

\* params.id values: ids the store assigns early, so that they come to exist
ReqIds == {1, 2}

ValidVals ==
    [nombre |-> {NombreA, NombreB}, email |-> {EmailA, EmailPadded},
     password |-> {Secret, Secret2}, rol |-> {Cliente, Admin},
     activo |-> {Num(0), Num(1), One}]

InvalidVals ==
    [nombre |-> {NombreBlank, Num(5)}, email |-> {EmailNoAt},
     password |-> {ShortSecret}, rol |-> {Root, Null},
     activo |-> {Num(2), Yes}]

BaseBody == Body(NombreA, EmailA, Secret, Undef, Undef)

\* createUsuario bodies: the base body, with email and the two optional fields
\* ranging over their accepted values, or with one field made unacceptable.
CreateBodies ==
    {[BaseBody EXCEPT !.email = e, !.rol = r, !.activo = a] :
        e \in {EmailA, EmailUpper, EmailPadded}, r \in {Undef, Admin},
        a \in {Undef, One}}
    \cup UNION {{[BaseBody EXCEPT ![c] = v] : v \in InvalidVals[c]} : c \in SetCols}
    \cup {[BaseBody EXCEPT ![c] = Undef] : c \in SetCols}
    \cup {[BaseBody EXCEPT !.activo = v] : v \in {Null, Bool(TRUE)}}

NewVal ==
    [nombre |-> NombreB, email |-> EmailPadded, password |-> Secret2,
     rol |-> Admin, activo |-> Num(0)]

BadVal ==
    [nombre |-> NombreBlank, email |-> EmailNoAt, password |-> ShortSecret,
     rol |-> Root, activo |-> Num(2)]

\* updateUsuario bodies: every subset of the five fields with an accepted value
\* each, and every pair of fields with the later one, or both, unacceptable.
UpdateBodies ==
    {[c \in SetCols |-> IF c \in S THEN NewVal[c] ELSE Undef] : S \in SUBSET SetCols}
    \cup {[c \in SetCols |-> IF c \in S THEN BadVal[c] ELSE Undef] :
             S \in {T \in SUBSET SetCols : Cardinality(T) \in {1, 2}}}
    \cup {[c \in SetCols |-> IF c = p[1] THEN NewVal[c]
                             ELSE IF c = p[2] THEN BadVal[c] ELSE Undef] :
             p \in {q \in SetCols \X SetCols : q[1] # q[2]}}
    \cup {[NoBody EXCEPT !.activo = v] : v \in {One, Null, Yes}}
    \cup {[NoBody EXCEPT !.email = v] : v \in {EmailA, EmailUpper}}

(***************************************************************************)
(* Requests that run to completion before the next one starts              *)
(***************************************************************************)
Procs == {1, 2}

IdleProc ==
    [pc |-> "idle", op |-> "none", id |-> 0, body |-> NoBody, res |-> Send(0),
     affected |-> 0, n |-> 0]

NoProcs == [p \in Procs |-> IdleProc]

NoReq == [op |-> "none", id |-> 0, body |-> NoBody]

Init ==
    /\ usuarios = << >>
    /\ nextId = 1
    /\ req = NoReq
    /\ res = Send(0)
    /\ stmts = <<>>
    /\ nreq = 0
    /\ procs = NoProcs

Handle(op, id, body, o) ==
    /\ nreq < MaxReqs
    /\ usuarios' = o.usuarios
    /\ nextId' = o.nextId
    /\ req' = [op |-> op, id |-> id, body |-> body]
    /\ res' = o.res
    /\ stmts' = o.stmts
    /\ nreq' = nreq + 1
    /\ UNCHANGED procs

GetAllUsuarios == Handle("getAllUsuarios", 0, NoBody, getAllUsuarios(usuarios, nextId, 0))

GetUsuarioById ==
    \E id \in ReqIds :
        Handle("getUsuarioById", id, NoBody, getUsuarioById(id, usuarios, nextId, 0))

CreateUsuario ==
    \E body \in CreateBodies :
        Handle("createUsuario", 0, body, createUsuario(body, usuarios, nextId, 0))

UpdateUsuario ==
    \E id \in ReqIds, body \in UpdateBodies :
        Handle("updateUsuario", id, body, updateUsuario(id, body, usuarios, nextId, 0))

DeleteUsuario ==
    \E id \in ReqIds :
        Handle("deleteUsuario", id, NoBody, deleteUsuario(id, usuarios, nextId, 0))

Next ==
    \/ GetAllUsuarios
    \/ GetUsuarioById
    \/ CreateUsuario
    \/ UpdateUsuario
    \/ DeleteUsuario

Spec == Init /\ [][Next]_vars

(***************************************************************************)
(* Store failures: the k-th db.query of a request rejects                  *)
(***************************************************************************)
GetAllUsuariosFails ==
    Handle("getAllUsuarios", 0, NoBody, getAllUsuarios(usuarios, nextId, 1))

GetUsuarioByIdFails ==
    \E id \in ReqIds :
        Handle("getUsuarioById", id, NoBody, getUsuarioById(id, usuarios, nextId, 1))

\* A rejection is only seen by a request that gets to issue a statement.
FailCreateBodies == {BaseBody, [BaseBody EXCEPT !.email = EmailPadded]}

FailUpdateBodies ==
    {[NoBody EXCEPT !.nombre = NombreB], [NoBody EXCEPT !.email = EmailPadded],
     [NoBody EXCEPT !.password = Secret2, !.activo = Num(2)]}

CreateUsuarioFails ==
    \E body \in FailCreateBodies, k \in {1, 2} :
        Handle("createUsuario", 0, body, createUsuario(body, usuarios, nextId, k))

UpdateUsuarioFails ==
    \E id \in ReqIds, body \in FailUpdateBodies, k \in {1, 2, 3} :
        Handle("updateUsuario", id, body, updateUsuario(id, body, usuarios, nextId, k))

DeleteUsuarioFails ==
    \E id \in ReqIds :
        Handle("deleteUsuario", id, NoBody, deleteUsuario(id, usuarios, nextId, 1))

NextFail ==
    \/ Next
    \/ GetAllUsuariosFails
    \/ GetUsuarioByIdFails
    \/ CreateUsuarioFails
    \/ UpdateUsuarioFails
    \/ DeleteUsuarioFails

SpecFail == Init /\ [][NextFail]_vars

(***************************************************************************)
(* Overlapping requests.  A handler runs without interruption between two  *)
(* awaits; each db.query is one statement the store executes atomically.   *)
(* A step is the execution of a request's next statement together with the *)
(* handler code that follows it up to the next db.query or the response.   *)
(***************************************************************************)
MaxProcReqs == 2

ConcCreateBodies == {BaseBody, [BaseBody EXCEPT !.email = EmailUpper]}

ConcUpdateBodies ==
    {[NoBody EXCEPT !.nombre = NombreB], [NoBody EXCEPT !.email = EmailUpper],
     [NoBody EXCEPT !.activo = Num(2)]}

ConcIds == {1}

Respond(p, r) ==
    procs' = [procs EXCEPT ![p].pc = "idle", ![p].res = r, ![p].n = @ + 1]

Goto(p, pc) == procs' = [procs EXCEPT ![p].pc = pc]

Receive(p, op, id, body) ==
    [procs[p] EXCEPT !.op = op, !.id = id, !.body = body, !.res = Send(0),
                     !.affected = 0]

\* createUsuario up to its first db.query
CreateStart(p) ==
    /\ procs[p].pc = "idle"
    /\ procs[p].n < MaxProcReqs
    /\ \E body \in ConcCreateBodies :
        LET err == CreateValidationError(body)
            me == Receive(p, "createUsuario", 0, body)
        IN procs' = [procs EXCEPT ![p] =
                IF err # Undef
                THEN [me EXCEPT !.res = Json(400, ErrorBody(err)), !.n = @ + 1]
                ELSE [me EXCEPT !.pc = "create_select"]]
    /\ UNCHANGED <<usuarios, nextId, req, res, stmts, nreq>>

\* the existence check, then bcrypt.hash
CreateSelect(p) ==
    /\ procs[p].pc = "create_select"
    /\ IF SelectByEmail(usuarios, CreateEmailKey(procs[p].body)) # {}
       THEN Respond(p, Json(400, ErrorBody(ErrCrearDuplicado(procs[p].body.email))))
       ELSE Goto(p, "create_insert")
    /\ UNCHANGED <<usuarios, nextId, req, res, stmts, nreq>>

\* the INSERT and the 201
CreateInsertStep(p) ==
    /\ procs[p].pc = "create_insert"
    /\ usuarios' = CreateInsert(usuarios, nextId, procs[p].body)
    /\ nextId' = nextId + 1
    /\ Respond(p, Json(201, CreateResponse(nextId, procs[p].body)))
    /\ UNCHANGED <<req, res, stmts, nreq>>

\* updateUsuario up to its first db.query
UpdateStart(p) ==
    /\ procs[p].pc = "idle"
    /\ procs[p].n < MaxProcReqs
    /\ \E id \in ConcIds, body \in ConcUpdateBodies :
        LET me == Receive(p, "updateUsuario", id, body)
        IN procs' = [procs EXCEPT ![p] =
                IF NoFields(body)
                THEN [me EXCEPT !.res = Json(400, ErrorBody(ErrSinCampos)), !.n = @ + 1]
                ELSE [me EXCEPT !.pc = "update_select"]]
    /\ UNCHANGED <<usuarios, nextId, req, res, stmts, nreq>>

\* the code after the last lookup: the remaining validations
UpdateAfterLookup(p) ==
    LET e2 == UpdateErrorAfterLookup(procs[p].body)
    IN IF e2 # Undef THEN Respond(p, Json(400, ErrorBody(e2)))
       ELSE IF Supplied(UpdateSets(procs[p].body)) = {}
       THEN Respond(p, Json(400, ErrorBody(ErrSinDatos)))
       ELSE Goto(p, "update_exec")

\* SELECT * ... WHERE idusuario = ? and the validations up to the next db.query
UpdateSelect(p) ==
    /\ procs[p].pc = "update_select"
    /\ LET body == procs[p].body
           e1 == UpdateErrorBeforeLookup(body)
       IN IF Len(SelectStarById(usuarios, procs[p].id)) = 0
          THEN Respond(p, Json(404, MessageBody(NoEncontrado)))
          ELSE IF e1 # Undef THEN Respond(p, Json(400, ErrorBody(e1)))
          ELSE IF body.email # Undef THEN Goto(p, "update_lookup")
          ELSE UpdateAfterLookup(p)
    /\ UNCHANGED <<usuarios, nextId, req, res, stmts, nreq>>

\* the lookup of another user with the email
UpdateLookup(p) ==
    /\ procs[p].pc = "update_lookup"
    /\ IF SelectByEmailOther(usuarios, UpdateEmailKey(procs[p].body), procs[p].id) # {}
       THEN Respond(p, Json(400, ErrorBody(ErrDuplicado(procs[p].body.email))))
       ELSE UpdateAfterLookup(p)
    /\ UNCHANGED <<usuarios, nextId, req, res, stmts, nreq>>

\* the UPDATE and the 200; the statement's affectedRows is not read by the handler
UpdateExec(p) ==
    /\ procs[p].pc = "update_exec"
    /\ usuarios' = ExecUpdate(usuarios, procs[p].id, UpdateSets(procs[p].body))
    /\ procs' = [procs EXCEPT ![p].pc = "idle", ![p].n = @ + 1,
                              ![p].res = Json(200, UpdatedFields(procs[p].body)),
                              ![p].affected = AffectedRows(usuarios, procs[p].id)]
    /\ UNCHANGED <<nextId, req, res, stmts, nreq>>

\* deleteUsuario up to its db.query
DeleteStart(p) ==
    /\ procs[p].pc = "idle"
    /\ procs[p].n < MaxProcReqs
    /\ \E id \in ConcIds :
        procs' = [procs EXCEPT ![p] =
                     [Receive(p, "deleteUsuario", id, NoBody) EXCEPT !.pc = "delete_exec"]]
    /\ UNCHANGED <<usuarios, nextId, req, res, stmts, nreq>>

\* the DELETE and the response
DeleteExec(p) ==
    /\ procs[p].pc = "delete_exec"
    /\ usuarios' = ExecDelete(usuarios, procs[p].id)
    /\ procs' = [procs EXCEPT ![p].pc = "idle", ![p].n = @ + 1,
                              ![p].affected = AffectedRows(usuarios, procs[p].id),
                              ![p].res = IF AffectedRows(usuarios, procs[p].id) = 0
                                         THEN Json(404, MessageBody(NoEncontrado))
                                         ELSE Send(204)]
    /\ UNCHANGED <<nextId, req, res, stmts, nreq>>

NextConc ==
    \E p \in Procs :
        \/ CreateStart(p)
        \/ CreateSelect(p)
        \/ CreateInsertStep(p)
        \/ UpdateStart(p)
        \/ UpdateSelect(p)
        \/ UpdateLookup(p)
        \/ UpdateExec(p)
        \/ DeleteStart(p)
        \/ DeleteExec(p)

SpecConc == Init /\ [][NextConc]_vars

(***************************************************************************)
(* Properties                                                              *)
(***************************************************************************)
Range(f) == {f[i] : i \in DOMAIN f}

AllCols ==
    {"idusuario", "nombre", "email", "password", "rol", "fechacreacion", "activo"}

\* C1: in every state reached by createUsuario, updateUsuario and deleteUsuario
\* requests that do not overlap, no two rows have case-insensitively equal email.
C1_EmailsUnique ==
    \A i \in DOMAIN usuarios, j \in DOMAIN usuarios :
        i # j => ToLowerCase(usuarios[i].email.s) # ToLowerCase(usuarios[j].email.s)

\* C2: a createUsuario that has passed its existence check inserts its row and
\* responds 201 whatever other requests have inserted since the check, so two
\* overlapping creations with identical emails can both insert.
C2_CheckedCreateInserts ==
    [][\A p \in Procs :
          (procs[p].pc = "create_insert" /\ procs'[p].pc # "create_insert")
          => /\ DOMAIN usuarios' = DOMAIN usuarios \cup {nextId}
             /\ nextId \notin DOMAIN usuarios
             /\ usuarios'[nextId].email = Str(Trim(procs[p].body.email.s))
             /\ procs'[p].res.status = 201]_vars

\* Both requests carried the same email, both were answered 201, and the
\* table holds two rows with that email.
C2_Witness ==
    /\ \A p \in Procs : procs[p].op = "createUsuario" /\ procs[p].res.status = 201
    /\ procs[1].body.email = procs[2].body.email
    /\ \E i \in DOMAIN usuarios, j \in DOMAIN usuarios :
          /\ i # j
          /\ usuarios[i].email = usuarios[j].email
          /\ usuarios[i].email = Str(Trim(procs[1].body.email.s))

\* x occurs in y as a contiguous run of characters
IsInfix(x, y) ==
    \E i \in 0..(Len(y) - Len(x)) : SubSeq(y, i + 1, i + Len(x)) = x

\* the value v of a payload discloses the secret x
Leaks(v, x) ==
    v.t = "string" /\ x.t = "string" /\ x.s # <<>> /\ IsInfix(x.s, v.s)

\* the plaintext password of request r and the password hashes held in tbl
Secrets(tbl, r) ==
    {tbl[i].password : i \in DOMAIN tbl}
    \cup (IF r.body.password # Undef THEN {r.body.password} ELSE {})

Payloads(r) == {r.body} \cup Range(r.rows)

\* C3: whatever the handler and the outcome (success, 400, 404, 500), the
\* response has no password key and none of its values contains the request's
\* plaintext password or a password hash stored before or after the request.
\* Passwords are drawn from characters no nombre or email is made of, so that
\* a match can only come from the password itself.
C3_NoPasswordInResponse ==
    [][\A b \in Payloads(res') :
          /\ b.password = Undef
          /\ \A k \in BodyKeys :
                \A x \in Secrets(usuarios, req') \cup Secrets(usuarios', req') :
                    ~Leaks(b[k], x)]_vars

\* A password was changed and the request answered 200.
C3_Witness ==
    /\ req.op = "updateUsuario"
    /\ req.body.password = Secret2
    /\ res.status = 200
    /\ usuarios[req.id].password = Hash(Secret2)

\* C4: every row has rol cliente or admin and activo the integer 0 or 1, the
\* row holding the values the handler passes to the store.
C4_RolActivoDomain ==
    \A i \in DOMAIN usuarios :
        /\ usuarios[i].rol \in {Cliente, Admin}
        /\ usuarios[i].activo \in {Num(0), Num(1)}

\* C5: an updateUsuario answered 400 or 404 issues no mutating statement and
\* leaves the table as it was.
C5_FailedUpdateWritesNothing ==
    [][(req'.op = "updateUsuario" /\ res'.status \in {400, 404})
          => /\ usuarios' = usuarios
             /\ nextId' = nextId
             /\ Range(stmts') \subseteq {"SELECT"}]_vars

\* An earlier field passed, a later one failed, on a row that exists.
C5_Witness ==
    /\ req.op = "updateUsuario"
    /\ res.status = 400
    /\ req.id \in DOMAIN usuarios
    /\ req.body.nombre = NombreB
    /\ res.body.error = ErrActivo

\* C6: an updateUsuario answered 200 for the supplied fields S changes, in the
\* row of its id, only columns of S, leaves every other row unchanged, and
\* responds with exactly the keys S minus password; supplying only rol admin
\* returns only {rol: admin}.
C6_UpdateFrame ==
    [][(req'.op = "updateUsuario" /\ res'.status = 200)
          => LET id == req'.id
                 S == Supplied(req'.body)
             IN /\ id \in DOMAIN usuarios
                /\ DOMAIN usuarios' = DOMAIN usuarios
                /\ \A i \in DOMAIN usuarios \ {id} : usuarios'[i] = usuarios[i]
                /\ \A c \in AllCols \ S : usuarios'[id][c] = usuarios[id][c]
                /\ res'.kind = "json"
                /\ Keys(res'.body) = S \ {"password"}
                /\ (req'.body = [NoBody EXCEPT !.rol = Admin]
                      => res'.body = [EmptyBody EXCEPT !.rol = Admin])]_vars

\* Only rol admin was supplied, for a row that was cliente, beside another row.
C6_Witness ==
    /\ req.op = "updateUsuario"
    /\ res.status = 200
    /\ req.body = [NoBody EXCEPT !.rol = Admin]
    /\ Cardinality(DOMAIN usuarios) = 2
    /\ usuarios[req.id].rol = Admin
    /\ res.body = [EmptyBody EXCEPT !.rol = Admin]

\* C7: deleteUsuario on an id without a row responds 404 and leaves the table
\* unchanged; on an id with a row it responds 204 with an empty body and
\* removes exactly that row; an id the store has assigned and that has no row
\* never gets one again, and getUsuarioById on an id without a row responds
\* 404: so any later getUsuarioById on a deleted id responds 404.
C7_DeleteThenGet ==
    [][/\ (req'.op = "deleteUsuario" /\ req'.id \notin DOMAIN usuarios)
            => (res'.status = 404 /\ usuarios' = usuarios)
       /\ (req'.op = "deleteUsuario" /\ req'.id \in DOMAIN usuarios)
            => /\ res' = Send(204)
               /\ DOMAIN usuarios' = DOMAIN usuarios \ {req'.id}
               /\ \A i \in DOMAIN usuarios' : usuarios'[i] = usuarios[i]
       /\ \A i \in 1..(nextId - 1) :
            i \notin DOMAIN usuarios => i \notin DOMAIN usuarios'
       /\ (req'.op = "getUsuarioById" /\ req'.id \notin DOMAIN usuarios)
            => res'.status = 404]_vars

\* getUsuarioById was answered 404 for an id that the store had assigned.
C7_Witness ==
    /\ req.op = "getUsuarioById"
    /\ res.status = 404
    /\ req.id < nextId
    /\ req.id \notin DOMAIN usuarios

\* C8: a getUsuarioById on the idusuario of a 201, issued right after it,
\* responds 200 with the nombre, email, rol and activo of the 201 body.
C8_CreateThenGet ==
    [][(/\ req.op = "createUsuario"
        /\ res.status = 201
        /\ req'.op = "getUsuarioById"
        /\ Num(req'.id) = res.body.idusuario)
          => /\ res'.status = 200
             /\ \A k \in {"nombre", "email", "rol", "activo"} :
                   res'.body[k] = res.body[k]]_vars

\* The second request is a getUsuarioById answered 200: the first one created
\* the row it reads.
C8_Witness ==
    /\ nreq = 2
    /\ req.op = "getUsuarioById"
    /\ res.status = 200
    /\ res.body.nombre = Str(<<"a">>)

FieldOrder == <<"nombre", "email", "password", "rol", "activo">>

\* field c of body b is supplied and not acceptable for the row id of tbl
FieldInvalid(c, b, id, tbl) ==
    /\ b[c] # Undef
    /\ CASE c = "nombre" ->
              ~(b[c].t = "string" /\ \E i \in 1..Len(b[c].s) : b[c].s[i] # " ")
         [] c = "email" ->
              \/ ~(b[c].t = "string" /\ "@" \in Range(b[c].s))
              \/ SelectByEmailOther(tbl, ToLowerCase(b[c].s), id) # {}
         [] c = "password" -> ~(b[c].t = "string" /\ Len(b[c].s) >= MinPasswordLength)
         [] c = "rol" -> b[c] \notin {Cliente, Admin}
         [] c = "activo" -> ToNumber(b[c]) \notin {Num(0), Num(1)}

\* the message that names field c
FieldMessage(c, b) ==
    CASE c = "nombre" -> ErrNombre
      [] c = "email" ->
           IF b[c].t = "string" /\ "@" \in Range(b[c].s)
           THEN ErrDuplicado(b[c]) ELSE ErrEmail
      [] c = "password" -> ErrPassword
      [] c = "rol" -> ErrRol
      [] c = "activo" -> ErrActivo

InvalidAt(b, id, tbl) ==
    {k \in 1..Len(FieldOrder) : FieldInvalid(FieldOrder[k], b, id, tbl)}

\* C9: updateUsuario with all five fields absent responds 400 without a
\* statement, whether or not the id exists; otherwise an id without a row
\* responds 404 whatever the fields hold; a 400 for a field is only given when
\* the row exists, and it names the first unacceptable field in the order
\* nombre, email, password, rol, activo.
C9_UpdateFailureOrder ==
    [][req'.op = "updateUsuario"
          => LET b == req'.body
                 id == req'.id
                 bad == InvalidAt(b, id, usuarios)
             IN /\ Supplied(b) = {}
                     => /\ res'.status = 400
                        /\ res'.body = ErrorBody(ErrSinCampos)
                        /\ stmts' = <<>>
                /\ (Supplied(b) # {} /\ id \notin DOMAIN usuarios)
                     => res'.status = 404
                /\ (Supplied(b) # {} /\ id \in DOMAIN usuarios /\ bad # {})
                     => LET k == CHOOSE m \in bad : \A n \in bad : m <= n
                        IN /\ res'.status = 400
                           /\ res'.body = ErrorBody(FieldMessage(FieldOrder[k], b))
                /\ (Supplied(b) # {} /\ id \in DOMAIN usuarios /\ bad = {})
                     => res'.status = 200]_vars

\* Password and rol were both unacceptable and the 400 names password.
C9_Witness ==
    /\ req.op = "updateUsuario"
    /\ req.id \in DOMAIN usuarios
    /\ req.body.password = ShortSecret
    /\ req.body.rol = Root
    /\ res.status = 400
    /\ res.body.error = ErrPassword

\* C10: an updateUsuario overlapping a deleteUsuario on the same id responds
\* 200 only if its UPDATE found the row.
C10_OkUpdateWroteARow ==
    \A p \in Procs :
        (procs[p].op = "updateUsuario" /\ procs[p].pc = "idle"
            /\ procs[p].res.status = 200)
        => procs[p].affected = 1

====
